---- MODULE Spec2Model ----
(***************************************************************************)
(* A model of paddle/fluid/operators/kernel_primitives/helper_primitives.h *)
(* : the three post-processing functors ExpLogitTransformer,               *)
(* IdentityFunctor and DivideFunctor, their constructors and their two     *)
(* invocation forms, over scaled-down IEEE-754 binary formats and a        *)
(* scaled-down two's-complement int.                                       *)
(***************************************************************************)
EXTENDS Integers, Sequences, FiniteSets, TLC

(***************************************************************************)
(* Bounds.  The element types keep their IEEE-754 shape (precision p,      *)
(* exponents emin = 1 - emax .. emax, subnormals, signed zeros, infinities,*)
(* NaN) at a reduced width; int keeps two's complement at a reduced width. *)
(***************************************************************************)
IntBits == 6
Prec16 == 3
Emax16 == 2
Prec32 == 4
Emax32 == 6
Prec64 == 6
Emax64 == 7
MaxLen == 2

(***************************************************************************)
(* Arithmetic helpers.                                                     *)
(***************************************************************************)
RECURSIVE Pow2(_)
Pow2(k) == IF k <= 0 THEN 1 ELSE 2 * Pow2(k - 1)

RECURSIVE BitLen(_)
BitLen(m) == IF m <= 0 THEN 0 ELSE 1 + BitLen(m \div 2)

Abs(v) == IF v < 0 THEN -v ELSE v

Max2(a, b) == IF a >= b THEN a ELSE b

Min2(a, b) == IF a <= b THEN a ELSE b

Xor(a, b) == IF a = b THEN 0 ELSE 1

Sgn(v) == IF v < 0 THEN -1 ELSE 1

(***************************************************************************)
(* Values.  Every scalar is a record of one shape.  A finite non-zero      *)
(* floating value is (-1)^s * m * 2^e with m odd, so that a value has one  *)
(* representation whatever the format it is held in; an int holds its      *)
(* value in m.                                                             *)
(***************************************************************************)
NaN == [cls |-> "nan", s |-> 0, m |-> 0, e |-> 0]

Inf(s) == [cls |-> "inf", s |-> s, m |-> 0, e |-> 0]

Zero(s) == [cls |-> "zero", s |-> s, m |-> 0, e |-> 0]

IntVal(v) == [cls |-> "int", s |-> 0, m |-> v, e |-> 0]

NoVal == [cls |-> "none", s |-> 0, m |-> 0, e |-> 0]

RECURSIVE Fin(_, _, _)
Fin(s, m, e) ==
  IF m = 0 THEN Zero(s)
  ELSE IF m % 2 = 0 THEN Fin(s, m \div 2, e + 1)
  ELSE [cls |-> "fin", s |-> s, m |-> m, e |-> e]

FloatTypes == {"float16", "float", "double"}

AllTypes == FloatTypes \cup {"int"}

IsFloat(T) == T \in FloatTypes

\* The binary format of a floating element type.
Fmt(T) ==
  CASE T = "float16" -> [p |-> Prec16, emin |-> 1 - Emax16, emax |-> Emax16]
    [] T = "float"   -> [p |-> Prec32, emin |-> 1 - Emax32, emax |-> Emax32]
    [] T = "double"  -> [p |-> Prec64, emin |-> 1 - Emax64, emax |-> Emax64]

\* Exponent of the least significant bit of the format's subnormals.
QMin(F) == F.emin - F.p + 1

IntMin == -Pow2(IntBits - 1)

IntMax == Pow2(IntBits - 1) - 1

\* Two's-complement wrap to IntBits bits.
WrapInt(v) ==
  LET w == Pow2(IntBits)
      u == ((v % w) + w) % w
  IN  IF u > IntMax THEN u - w ELSE u

\* Exponent k of the leading bit of the positive rational num / den:
\* 2^k <= num / den < 2^(k+1).
LeadExp(num, den) ==
  LET k0 == BitLen(num) - BitLen(den)
      ge == IF k0 >= 0 THEN num >= den * Pow2(k0)
                       ELSE num * Pow2(-k0) >= den
  IN  IF ge THEN k0 ELSE k0 - 1

\* Round the positive rational (num / den) * 2^e to format F, to nearest,
\* ties to even; overflow gives infinity, underflow a subnormal or zero.
RoundRat(F, s, num, den, e) ==
  LET lexp == LeadExp(num, den) + e
      qe   == Max2(lexp - F.p + 1, QMin(F))
      sh   == e - qe
      N    == IF sh >= 0 THEN num * Pow2(sh) ELSE num
      D    == IF sh >= 0 THEN den ELSE den * Pow2(-sh)
      M0   == N \div D
      R    == N % D
      M    == IF 2 * R > D \/ (2 * R = D /\ M0 % 2 = 1) THEN M0 + 1 ELSE M0
  IN  IF lexp > F.emax THEN Inf(s)
      ELSE IF lexp < qe - 1 THEN Zero(s)
      ELSE IF M = 0 THEN Zero(s)
      ELSE IF BitLen(M) + qe - 1 > F.emax THEN Inf(s)
      ELSE Fin(s, M, qe)

\* Whether the floating value v is a value of format F.
Representable(F, v) ==
  \/ v.cls \in {"nan", "inf", "zero"}
  \/ /\ v.cls = "fin"
     /\ BitLen(v.m) <= F.p
     /\ v.e >= QMin(F)
     /\ BitLen(v.m) + v.e - 1 <= F.emax

\* Every value of element type T.
Values(T) ==
  IF T = "int" THEN {IntVal(v) : v \in IntMin..IntMax}
  ELSE LET F == Fmt(T)
       IN  {NaN} \cup {Inf(s) : s \in {0, 1}} \cup {Zero(s) : s \in {0, 1}}
           \cup {Fin(s, m, e) : s \in {0, 1}, m \in 1..(Pow2(F.p) - 1),
                                e \in QMin(F)..(F.emax - F.p + 1)}

\* The values of each element type, tabulated.
ValuesOf == [T \in AllTypes |-> Values(T)]

(***************************************************************************)
(* State.                                                                  *)
(*   kernel   the template instantiation in use: the functor struct and    *)
(*            its element types, fixed at compile time                     *)
(*   build    what the build makes of an out-of-range floating-to-int      *)
(*            conversion (undefined behaviour): one value per build        *)
(*   ctx      the execution context of each execution unit                 *)
(*   functor  the functor objects: whether constructed, the constructor's  *)
(*            argument n (recorded; the object itself keeps only n_inv)    *)
(*            and the member n_inv                                         *)
(*   thr      each execution unit's invocation: position, the object it    *)
(*            invokes, the invocation form, its argument and its result    *)
(***************************************************************************)
VARIABLES kernel, build, ctx, functor, thr

vars == <<kernel, build, ctx, functor, thr>>

\* The functor objects of the run.
Insts == {1, 2}

\* The execution units of the run.
Threads == {1, 2}

(***************************************************************************)
(* Arithmetic and conversions of the element types.                        *)
(***************************************************************************)
\* int -> floating type T (exact when the value fits the precision).
IntToFloat(T, v) ==
  IF v = 0 THEN Zero(0)
  ELSE RoundRat(Fmt(T), IF v < 0 THEN 1 ELSE 0, Abs(v), 1, 0)

\* floating -> int: truncation toward zero; NaN, infinities and values
\* out of int's range are undefined behaviour, resolved by the build.
FloatToInt(v) ==
  CASE v.cls = "zero" -> IntVal(0)
    [] v.cls = "fin" ->
         LET mag == IF v.e >= 0 THEN v.m * Pow2(v.e) ELSE v.m \div Pow2(-v.e)
             k   == IF v.s = 1 THEN -mag ELSE mag
         IN  IF k >= IntMin /\ k <= IntMax THEN IntVal(k) ELSE IntVal(build)
    [] OTHER -> IntVal(build)

\* floating -> floating type T: round to nearest, ties to even.
FloatToFloat(T, v) ==
  IF v.cls = "fin" THEN RoundRat(Fmt(T), v.s, v.m, 1, v.e) ELSE v

\* static_cast<Ty>(x) for x of type Tx.
StaticCast(Tx, Ty, x) ==
  CASE Tx = "int" /\ Ty = "int" -> x
    [] Tx = "int" /\ Ty # "int" -> IntToFloat(Ty, x.m)
    [] Tx # "int" /\ Ty = "int" -> FloatToInt(x)
    [] OTHER -> FloatToFloat(Ty, x)

\* a * b in element type T.
Mul(T, a, b) ==
  IF T = "int" THEN IntVal(WrapInt(a.m * b.m))
  ELSE LET s == Xor(a.s, b.s)
       IN  CASE a.cls = "nan" \/ b.cls = "nan" -> NaN
             [] a.cls = "inf" -> IF b.cls = "zero" THEN NaN ELSE Inf(s)
             [] b.cls = "inf" -> IF a.cls = "zero" THEN NaN ELSE Inf(s)
             [] a.cls = "zero" \/ b.cls = "zero" -> Zero(s)
             [] OTHER -> RoundRat(Fmt(T), s, a.m * b.m, 1, a.e + b.e)

\* a / b in floating type T.
Div(T, a, b) ==
  LET s == Xor(a.s, b.s)
  IN  CASE a.cls = "nan" \/ b.cls = "nan" -> NaN
        [] a.cls = "inf" -> IF b.cls = "inf" THEN NaN ELSE Inf(s)
        [] b.cls = "inf" -> Zero(s)
        [] b.cls = "zero" -> IF a.cls = "zero" THEN NaN ELSE Inf(s)
        [] a.cls = "zero" -> Zero(s)
        [] OTHER -> RoundRat(Fmt(T), s, a.m, b.m, a.e - b.e)

\* The double expression 1.0 / n for an int n: n converts to double and
\* the division is a double division (1.0 / 0 is +infinity).
OneOver(n) == Div("double", Fin(0, 1, 0), IntToFloat("double", n))

\* The math library's exponential in type T: e^x by range reduction
\* x = j * ln 2 + r and a degree-4 polynomial in fixed point (12 fraction
\* bits), rounded to T.
LibExp(T, x) ==
  CASE x.cls = "nan" -> NaN
    [] x.cls = "inf" -> IF x.s = 1 THEN Zero(0) ELSE Inf(0)
    [] x.cls = "zero" -> Fin(0, 1, 0)
    [] OTHER ->
         IF BitLen(x.m) + x.e > 5
         THEN (IF x.s = 1 THEN Zero(0) ELSE Inf(0))
         ELSE LET mag == IF x.e + 12 >= 0 THEN x.m * Pow2(x.e + 12)
                                          ELSE x.m \div Pow2(-(x.e + 12))
                  X   == IF x.s = 1 THEN -mag ELSE mag
                  j   == (2 * X + 2839) \div (2 * 2839)
                  r   == X - j * 2839
                  h3  == 4096 + r \div 4
                  h2  == 4096 + (r * h3) \div (3 * 4096)
                  h1  == 4096 + (r * h2) \div (2 * 4096)
                  h0  == 4096 + (r * h1) \div 4096
              IN  RoundRat(Fmt(T), 0, h0, 4096, j)

(***************************************************************************)
(* details::ExpFunctor: one overload per floating type, each the math      *)
(* library's exponential of that type; declared __device__ only.           *)
(***************************************************************************)
ExpFunctor(T, x) == LibExp(T, x)

\* The contexts a function is compiled for.
Attr(f) ==
  CASE f = "details::ExpFunctor" -> {"device"}
    [] f = "details::LogFunctor" -> {"device"}
    [] OTHER -> {"host", "device"}

\* The functions of this header an invocation of a functor calls.
Callees(kind) ==
  CASE kind = "ExpLogitTransformer" -> {"ExpLogitTransformer::operator()",
                                        "details::ExpFunctor"}
    [] kind = "IdentityFunctor" -> {"IdentityFunctor::operator()"}
    [] OTHER -> {"DivideFunctor::operator()"}

(***************************************************************************)
(* The functors.  A functor object is [built, n, n_inv]: n records the     *)
(* constructor's argument, n_inv is DivideFunctor's only member (NoVal for *)
(* the two structs that have no member).  k is the instantiation.          *)
(***************************************************************************)
NoFunctor == [built |-> FALSE, n |-> 0, n_inv |-> NoVal]

\* ExpLogitTransformer(int n) {}
ExpLogitTransformer(k, n) == [built |-> TRUE, n |-> n, n_inv |-> NoVal]

\* Ty operator()(const Tx* x) const
ExpLogitTransformer_ptr(k, self, x) ==
  StaticCast(k.Tx, k.Ty, ExpFunctor(k.Tx, x[1]))

\* Ty operator()(const Tx& x) const
ExpLogitTransformer_ref(k, self, x) ==
  StaticCast(k.Tx, k.Ty, ExpFunctor(k.Tx, x))

\* IdentityFunctor(int n) {}
IdentityFunctor(k, n) == [built |-> TRUE, n |-> n, n_inv |-> NoVal]

\* Mutant: the pointer form passes the element through float16 before the
\* cast to Ty.
IdentityFunctor_ptr_viaHalf(k, self, x) ==
  StaticCast("float16", k.Ty, StaticCast(k.Tx, "float16", x[1]))

\* Ty operator()(const Tx* x) const
IdentityFunctor_ptr(k, self, x) == StaticCast(k.Tx, k.Ty, x[1])

\* Mutant: the reference form scales by the reciprocal of the count, as
\* DivideFunctor does.
IdentityFunctor_ref_scaled(k, self, x) ==
  StaticCast(k.Tx, k.Ty, Mul(k.Tx, x, StaticCast("double", k.Tx, OneOver(self.n))))

\* Ty operator()(const Tx& x) const
IdentityFunctor_ref(k, self, x) == StaticCast(k.Tx, k.Ty, x)

\* Mutant: the constructor guards the zero count and stores 0.
DivideFunctor_guarded(k, n) ==
  [built |-> TRUE, n |-> n,
   n_inv |-> IF n = 0 THEN StaticCast("int", k.Tx, IntVal(0))
             ELSE StaticCast("double", k.Tx, OneOver(n))]

\* DivideFunctor(int n) : n_inv((T)(1.0 / n)) {}
DivideFunctor(k, n) ==
  [built |-> TRUE, n |-> n, n_inv |-> StaticCast("double", k.Tx, OneOver(n))]

\* Mutant: the pointer form reads the last element of the sequence.
DivideFunctor_ptr_last(k, self, x) == Mul(k.Tx, x[Len(x)], self.n_inv)

\* T operator()(const T* x) const
DivideFunctor_ptr(k, self, x) == Mul(k.Tx, x[1], self.n_inv)

\* Mutant: the reference form divides by the count when T is int.
DivideFunctor_ref_quotient(k, self, x) ==
  IF k.Tx = "int" /\ self.n # 0
  THEN IntVal(WrapInt(Sgn(x.m) * Sgn(self.n) * (Abs(x.m) \div Abs(self.n))))
  ELSE Mul(k.Tx, x, self.n_inv)

\* T operator()(const T& x) const
DivideFunctor_ref(k, self, x) == Mul(k.Tx, x, self.n_inv)

\* The constructor of the instantiation's struct.
Construct_obj(k, n) ==
  CASE k.kind = "ExpLogitTransformer" -> ExpLogitTransformer(k, n)
    [] k.kind = "IdentityFunctor" -> IdentityFunctor(k, n)
    [] OTHER -> DivideFunctor(k, n)

\* operator() of the instantiation's struct, in the pointer form (arg is
\* the sequence the pointer points to) or the reference form (arg holds
\* the one scalar).
Invoke(k, self, form, arg) ==
  CASE k.kind = "ExpLogitTransformer" ->
         IF form = "ptr" THEN ExpLogitTransformer_ptr(k, self, arg)
                         ELSE ExpLogitTransformer_ref(k, self, arg[1])
    [] k.kind = "IdentityFunctor" ->
         IF form = "ptr" THEN IdentityFunctor_ptr(k, self, arg)
                         ELSE IdentityFunctor_ref(k, self, arg[1])
    [] OTHER ->
         IF form = "ptr" THEN DivideFunctor_ptr(k, self, arg)
                         ELSE DivideFunctor_ref(k, self, arg[1])

\* Mutant: the pointer form, not const, scales the member in place.
SelfAfter_ptr_scaled(self, x) ==
  [self EXCEPT !.n_inv = Mul(kernel.Tx, x[1], self.n_inv)]

\* The object after operator()(const Tx* x) const: a const member function
\* leaves the members as they are.
SelfAfter_ptr(self, x) == self

\* Mutant: the reference form, not const, keeps its product in the member.
SelfAfter_ref_scaled(self, x) ==
  [self EXCEPT !.n_inv = Mul(kernel.Tx, x, self.n_inv)]

\* The object after operator()(const Tx& x) const.
SelfAfter_ref(self, x) == self

\* Mutant: the argument is staged in a slot the execution units share, so
\* an invocation reads the argument of another one in flight.
Operand_shared(t) ==
  LET others == {u \in Threads : u # t /\ thr[u].pc = "called"}
  IN  IF others = {} THEN thr[t].arg ELSE thr[CHOOSE u \in others : TRUE].arg

\* The argument an invocation reads: its own parameter x.
Operand(t) == thr[t].arg

(***************************************************************************)
(* The instantiations and the inputs drawn.                                *)
(***************************************************************************)
Kernels ==
  {[kind |-> "ExpLogitTransformer", Tx |-> a, Ty |-> b] :
       a \in FloatTypes, b \in AllTypes}
  \cup {[kind |-> "IdentityFunctor", Tx |-> a, Ty |-> b] :
       a \in AllTypes, b \in AllTypes}
  \cup {[kind |-> "DivideFunctor", Tx |-> a, Ty |-> a] : a \in AllTypes}

\* What a build may make of an out-of-range floating-to-int conversion.
UBOutcomes == {IntMin, 0, IntMax}

HasFloatToInt(k) ==
  \/ k.kind = "DivideFunctor" /\ k.Tx = "int"
  \/ k.kind # "DivideFunctor" /\ k.Tx # "int" /\ k.Ty = "int"

Idle == [pc |-> "idle", inst |-> 1, form |-> "ref", arg |-> <<>>, res |-> NoVal]

\* Sequences of 1..MaxLen scalars: a first element from X, the rest from Y.
Seqs(X, Y) ==
  UNION {{<<x>> \o tl : x \in X, tl \in [1..(len - 1) -> Y]} : len \in 1..MaxLen}

\* A few values of each element type, for the runs that interleave
\* several execution units.
SampleValues(T) ==
  IF T = "int" THEN {IntVal(5), IntVal(-3)}
  ELSE {Fin(0, 5, 0), Fin(1, 3, -1)}

SampleCounts == {0, 2, -3}

AllCounts == IntMin..IntMax

\* The value a sequence is filled with past its first element.
Filler(T) == IF T = "int" THEN IntVal(7) ELSE Fin(0, 3, 0)

\* The sequence of MaxLen scalars that starts with x.
Padded(T, x) == <<x>> \o [j \in 1..(MaxLen - 1) |-> Filler(T)]

\* The counts drawn for an instantiation: every int for DivideFunctor.
CountsOf(k) == IF k.kind = "DivideFunctor" THEN AllCounts ELSE SampleCounts

(***************************************************************************)
(* Actions.                                                                *)
(***************************************************************************)
\* A call site constructs functor object i from a count n drawn from N.
Construct(i, N) ==
  /\ ~functor[i].built
  /\ \E n \in N : functor' = [functor EXCEPT ![i] = Construct_obj(kernel, n)]
  /\ UNCHANGED <<kernel, build, ctx, thr>>

\* Execution unit t enters operator() of object i, in the given form, with
\* an argument drawn from Args.
Call(t, i, form, Args) ==
  /\ thr[t].pc = "idle"
  /\ functor[i].built
  /\ \E arg \in Args :
       thr' = [thr EXCEPT ![t] = [pc |-> "called", inst |-> i, form |-> form,
                                  arg |-> arg, res |-> NoVal]]
  /\ UNCHANGED <<kernel, build, ctx, functor>>

\* The body of operator() runs: every function it calls must exist in the
\* unit's context; it then computes the result from its argument and the
\* object.
Exec(t) ==
  /\ thr[t].pc = "called"
  /\ LET i    == thr[t].inst
         self == functor[i]
     IN  IF \E f \in Callees(kernel.kind) : ctx[t] \notin Attr(f)
         THEN /\ thr' = [thr EXCEPT ![t].pc = "nofunc"]
              /\ UNCHANGED functor
         ELSE /\ thr' = [thr EXCEPT ![t].pc = "done",
                           ![t].res = Invoke(kernel, self, thr[t].form, Operand(t))]
              /\ functor' = [functor EXCEPT ![i] =
                               IF thr[t].form = "ptr"
                               THEN SelfAfter_ptr(self, Operand(t))
                               ELSE SelfAfter_ref(self, Operand(t)[1])]
  /\ UNCHANGED <<kernel, build, ctx>>

\* The caller takes the result; the unit is free for its next element.
Return(t) ==
  /\ thr[t].pc = "done"
  /\ thr' = [thr EXCEPT ![t] = Idle]
  /\ UNCHANGED <<kernel, build, ctx, functor>>

TypeInit(K) ==
  /\ kernel \in K
  /\ build \in (IF HasFloatToInt(kernel) THEN UBOutcomes ELSE {IntMin})
  /\ functor = [i \in Insts |-> NoFunctor]
  /\ thr = [t \in Threads |-> Idle]

(***************************************************************************)
(* Spec: several execution units, the first on the host or the device and  *)
(* the others on the device, invoke the objects concurrently, on sampled   *)
(* inputs.                                                                 *)
(***************************************************************************)
SpecKernels == {k \in Kernels : k.Ty = k.Tx \/ (k.Tx = "float" /\ k.Ty = "double")}

Init ==
  /\ TypeInit(SpecKernels)
  /\ ctx \in {c \in [Threads -> {"host", "device"}] :
                 \A t \in Threads : t > 1 => c[t] = "device"}

Next ==
  \/ \E i \in Insts : Construct(i, SampleCounts)
  \/ \E t \in Threads, i \in Insts :
       Call(t, i, "ref", {<<x>> : x \in SampleValues(kernel.Tx)})
  \/ \E t \in Threads, i \in Insts :
       Call(t, i, "ptr", Seqs(SampleValues(kernel.Tx), SampleValues(kernel.Tx)))
  \/ \E t \in Threads : Exec(t)
  \/ \E t \in Threads : Return(t)

Spec == Init /\ [][Next]_vars

(***************************************************************************)
(* SpecNum: one object and one execution unit, on the host or the device,  *)
(* every count of int and every value of the element type.                 *)
(***************************************************************************)
InitNum ==
  /\ TypeInit(Kernels)
  /\ ctx \in {c \in [Threads -> {"host", "device"}] :
                 \A t \in Threads : t > 1 => c[t] = "device"}

NextNum ==
  \/ Construct(1, CountsOf(kernel))
  \/ Call(1, 1, "ref", {<<x>> : x \in ValuesOf[kernel.Tx]})
  \/ Call(1, 1, "ptr", {Padded(kernel.Tx, x) : x \in ValuesOf[kernel.Tx]})
  \/ Exec(1)
  \/ Return(1)

SpecNum == InitNum /\ [][NextNum]_vars

(***************************************************************************)
(* Vocabulary of the properties.                                           *)
(***************************************************************************)
Done(t) == thr[t].pc = "done"

\* The object unit t invokes, and the scalar its invocation is about.
Self(t) == functor[thr[t].inst]

X0(t) == thr[t].arg[1]

IsFinite(v) == v.cls \in {"fin", "zero", "int"}

\* The value of a finite scalar, whatever its type: zero, or (-1)^s m 2^e.
Numeric(v) ==
  CASE v.cls = "int" -> Fin(IF v.m < 0 THEN 1 ELSE 0, Abs(v.m), 0)
    [] v.cls = "zero" -> Zero(0)
    [] OTHER -> v

SameValue(a, b) ==
  /\ IsFinite(a) /\ IsFinite(b)
  /\ LET u == Numeric(a)
         w == Numeric(b)
     IN  IF u.cls = "zero" \/ w.cls = "zero" THEN u.cls = w.cls ELSE u = w

\* Whether type T has a value equal to the finite scalar v.
HasValue(T, v) ==
  LET u == Numeric(v)
  IN  \/ u.cls = "zero"
      \/ /\ T = "int"
         /\ u.e >= 0
         /\ u.m * Pow2(Min2(u.e, IntBits)) <= (IF u.s = 1 THEN -IntMin ELSE IntMax)
      \/ /\ T # "int"
         /\ Representable(Fmt(T), u)

\* Whether r is within tol units in the last place of type T of the exact
\* quotient x / n (n # 0): for a floating T the unit is the spacing of T's
\* values at x / n, for int it is 1; NaN and infinite x give what IEEE
\* division gives.
WithinUlps(T, r, x, n, tol) ==
  CASE x.cls = "nan" -> r.cls = "nan"
    [] x.cls = "inf" -> r = Inf(Xor(x.s, IF n < 0 THEN 1 ELSE 0))
    [] x.cls = "zero" -> r = Zero(Xor(x.s, IF n < 0 THEN 1 ELSE 0))
    [] x.cls = "int" -> r.cls = "int" /\ Abs(r.m * Abs(n) - Sgn(n) * x.m) <= tol * Abs(n)
    [] OTHER ->
         /\ r.cls \in {"fin", "zero"}
         /\ LET F  == Fmt(T)
                ue == Max2(LeadExp(x.m, Abs(n)) + x.e - F.p + 1, QMin(F))
                er == IF r.cls = "fin" THEN r.e ELSE x.e
                c  == Min2(Min2(er, x.e), ue)
                R  == IF r.cls = "fin"
                      THEN (IF r.s = 1 THEN -1 ELSE 1) * r.m * Pow2(r.e - c)
                      ELSE 0
                X  == (IF x.s = 1 THEN -1 ELSE 1) * x.m * Pow2(x.e - c)
            IN  Abs(R * Abs(n) - Sgn(n) * X) <= tol * Pow2(ue - c) * Abs(n)

(***************************************************************************)
(* C1.  For every non-zero count n and every input x, a DivideFunctor      *)
(* built with n returns x / n within the rounding tolerance of the element *)
(* type.  Stated for the floating element types and finite x, with a       *)
(* tolerance of two units in the last place.                               *)
(***************************************************************************)
C1_DivideReturnsQuotient ==
  \A t \in Threads :
    (/\ kernel.kind = "DivideFunctor" /\ IsFloat(kernel.Tx)
     /\ Done(t)
     /\ Self(t).n # 0
     /\ IsFinite(X0(t)))
      => WithinUlps(kernel.Tx, thr[t].res, X0(t), Self(t).n, 2)

\* What does hold of the quotient: with T = float or double the reciprocal
\* of every int count is a normal value of T, and the result is within the
\* same tolerance of x / n for every x.
DivideQuotient_FloatDouble ==
  \A t \in Threads :
    (/\ kernel.kind = "DivideFunctor" /\ kernel.Tx \in {"float", "double"}
     /\ Done(t)
     /\ Self(t).n # 0)
      => WithinUlps(kernel.Tx, thr[t].res, X0(t), Self(t).n, 2)

(***************************************************************************)
(* C2.  For each functor, the pointer form returns what the reference form *)
(* returns on element 0: two finished invocations of one object, one of    *)
(* them in the pointer form, whose arguments agree at index 0 have the     *)
(* same result, whatever the rest of the sequence holds.                   *)
(***************************************************************************)
C2_PointerFormReadsIndex0 ==
  \A t \in Threads, u \in Threads :
    (/\ Done(t) /\ Done(u)
     /\ thr[t].inst = thr[u].inst
     /\ thr[t].form = "ptr"
     /\ X0(t) = X0(u))
      => thr[t].res = thr[u].res

C2_Witness ==
  /\ kernel.kind = "ExpLogitTransformer"
  /\ Done(1) /\ Done(2)
  /\ thr[1].inst = thr[2].inst
  /\ thr[1].form = "ptr" /\ thr[2].form = "ref"
  /\ Len(thr[1].arg) = MaxLen
  /\ thr[1].arg[MaxLen] # X0(1)
  /\ X0(1) = X0(2)

(***************************************************************************)
(* C3, as the claim states it.  IdentityFunctor on a finite x returns a    *)
(* scalar of the same value as x, whatever the input and output types.     *)
(***************************************************************************)
C3_IdentitySameValue ==
  \A t \in Threads :
    (kernel.kind = "IdentityFunctor" /\ Done(t) /\ IsFinite(X0(t)))
      => SameValue(thr[t].res, X0(t))

(***************************************************************************)
(* C3, amended.  IdentityFunctor on a finite x returns x itself when the   *)
(* output type is the input type, and a scalar of the same value as x      *)
(* exactly when the output type has such a value; otherwise the cast       *)
(* changes the value.                                                      *)
(***************************************************************************)
C3_IdentityCast ==
  \A t \in Threads :
    (kernel.kind = "IdentityFunctor" /\ Done(t) /\ IsFinite(X0(t)))
      => /\ kernel.Ty = kernel.Tx => thr[t].res = X0(t)
         /\ HasValue(kernel.Ty, X0(t)) <=> SameValue(thr[t].res, X0(t))

C3_Witness ==
  /\ kernel.kind = "IdentityFunctor"
  /\ kernel.Tx = "double" /\ kernel.Ty = "float"
  /\ Done(1)
  /\ X0(1).cls = "fin"
  /\ ~HasValue("float", X0(1))
  /\ thr[1].res.cls = "fin"

(***************************************************************************)
(* C4.  A DivideFunctor of a floating element type built with n = 0 holds  *)
(* the reciprocal +infinity, its invocations never fail, and on x they     *)
(* return NaN for a zero or NaN x and the infinity of x's sign otherwise.  *)
(***************************************************************************)
C4_DivideByZeroCount ==
  (kernel.kind = "DivideFunctor" /\ IsFloat(kernel.Tx)) =>
    /\ \A i \in Insts :
         (functor[i].built /\ functor[i].n = 0) => functor[i].n_inv = Inf(0)
    /\ \A t \in Threads :
         /\ thr[t].pc # "nofunc"
         /\ (Done(t) /\ Self(t).n = 0) =>
              thr[t].res = (IF X0(t).cls \in {"nan", "zero"} THEN NaN
                            ELSE Inf(X0(t).s))

C4_Witness ==
  /\ kernel.kind = "DivideFunctor" /\ kernel.Tx = "float"
  /\ Done(1)
  /\ Self(1).n = 0
  /\ X0(1).cls = "fin" /\ X0(1).s = 1
  /\ thr[1].res = Inf(1)

(***************************************************************************)
(* C5.  ExpLogitTransformer and IdentityFunctor ignore the count: two      *)
(* finished invocations in the same form on the same argument have the     *)
(* same result, whatever counts their objects were built with.             *)
(***************************************************************************)
C5_CountIgnored ==
  \A t \in Threads, u \in Threads :
    (/\ kernel.kind \in {"ExpLogitTransformer", "IdentityFunctor"}
     /\ Done(t) /\ Done(u)
     /\ thr[t].form = thr[u].form
     /\ thr[t].arg = thr[u].arg)
      => thr[t].res = thr[u].res

C5_Witness ==
  /\ kernel.kind = "IdentityFunctor"
  /\ Done(1) /\ Done(2)
  /\ Self(1).n # Self(2).n
  /\ thr[1].form = thr[2].form
  /\ thr[1].arg = thr[2].arg

(***************************************************************************)
(* C6.  Whatever the interleaving, a finished invocation holds the result  *)
(* of its functor on its own argument and the object it invoked.           *)
(***************************************************************************)
C6_ResultAsAlone ==
  \A t \in Threads :
    Done(t) => thr[t].res = Invoke(kernel, Self(t), thr[t].form, thr[t].arg)

C6_Witness ==
  /\ Done(1) /\ Done(2)
  /\ thr[1].inst = thr[2].inst
  /\ X0(1) # X0(2)
  /\ thr[1].res # thr[2].res

(***************************************************************************)
(* C7.  Every function an invocation calls exists in the context the       *)
(* invocation runs in: no invocation, on the host or on the device, ends   *)
(* at a function that its context does not have.                           *)
(***************************************************************************)
C7_CalleesAvailable == \A t \in Threads : thr[t].pc # "nofunc"

(***************************************************************************)
(* C8.  A DivideFunctor's result is a function of (n, x) alone: finished   *)
(* invocations, of one object or of two objects built with the same count, *)
(* on the same x have the same result.                                     *)
(***************************************************************************)
C8_DivideDeterministic ==
  \A t \in Threads, u \in Threads :
    (/\ kernel.kind = "DivideFunctor"
     /\ Done(t) /\ Done(u)
     /\ Self(t).n = Self(u).n
     /\ X0(t) = X0(u))
      => thr[t].res = thr[u].res

C8_Witness ==
  /\ kernel.kind = "DivideFunctor"
  /\ Done(1) /\ Done(2)
  /\ thr[1].inst # thr[2].inst
  /\ Self(1).n = Self(2).n
  /\ Self(1).n # 0
  /\ X0(1) = X0(2)

(***************************************************************************)
(* C9.  The members of an object are set once, by its construction, and no *)
(* later step changes them: DivideFunctor's n_inv becomes 1.0 / n          *)
(* converted to the element type, the other two structs hold nothing, and  *)
(* no invocation in either form writes to the object.                      *)
(***************************************************************************)
C9_ReciprocalFixed ==
  [][\A i \in Insts :
       /\ functor[i].built => functor'[i] = functor[i]
       /\ (~functor[i].built /\ functor'[i].built) =>
            functor'[i].n_inv =
              (IF kernel.kind = "DivideFunctor"
               THEN StaticCast("double", kernel.Tx, OneOver(functor'[i].n))
               ELSE NoVal)]_vars

C9_Witness ==
  /\ kernel.kind = "DivideFunctor"
  /\ Done(1) /\ Done(2)
  /\ thr[1].inst = thr[2].inst
  /\ thr[1].form = "ptr" /\ thr[2].form = "ref"
  /\ Self(1).n_inv.cls = "fin"

(***************************************************************************)
(* C10.  With an integer element type DivideFunctor's n_inv is 1.0 / n     *)
(* truncated: 0 for |n| >= 2, 1 for n = 1, -1 for n = -1; so for |n| >= 2  *)
(* every invocation returns 0.                                             *)
(***************************************************************************)
C10_IntReciprocalTruncates ==
  (kernel.kind = "DivideFunctor" /\ kernel.Tx = "int") =>
    /\ \A i \in Insts :
         functor[i].built =>
           /\ Abs(functor[i].n) >= 2 => functor[i].n_inv = IntVal(0)
           /\ functor[i].n = 1 => functor[i].n_inv = IntVal(1)
           /\ functor[i].n = -1 => functor[i].n_inv = IntVal(-1)
    /\ \A t \in Threads :
         (Done(t) /\ Abs(Self(t).n) >= 2) => thr[t].res = IntVal(0)

C10_Witness ==
  /\ kernel.kind = "DivideFunctor" /\ kernel.Tx = "int"
  /\ Done(1)
  /\ Self(1).n = 4
  /\ X0(1) = IntVal(20)
  /\ thr[1].res = IntVal(0)
====
